---------------------------- MODULE Spec2Model ----------------------------
(***************************************************************************)
(* Model of TCFile_class.py: the sequence-like accessors over a TCF        *)
(* container (TCFileRI3D, TCFileRI2DMIP, TCFileBF, TCFileFL3D).            *)
(*                                                                         *)
(* The container (the HDF5 file on disk) is read-only: it is chosen in     *)
(* Init and never changes.  The accessor's attributes are the ones         *)
(* __init__ reads from it.  One action per __getitem__ implementation.     *)
(*                                                                         *)
(* Numbers.  Integer arrays (dtype "u1", "u2") hold naturals.  Floating    *)
(* arrays (dtype "f4") hold fixed-point numbers in units of 1/Scale1e4, so *)
(* that x / 1e4, x / 1e3 and x + RIMin are exact; float32 rounding is not  *)
(* modelled.  Text (a version string, the index segment of a path) is a    *)
(* sequence of character codes, compared as Python compares str.           *)
(*                                                                         *)
(* Only array_type = 'numpy' (the default of __getitem__) is modelled; the  *)
(* test into_array == 'dask' of the fallback compares a function with a    *)
(* string and never holds.                                                 *)
(***************************************************************************)
EXTENDS Integers, Sequences, FiniteSets, TLC

VARIABLES
    container,        \* the TCF file on disk (read-only)
    imgtype,          \* class attribute of the accessor
    data_ndim,        \* class attribute of the accessor
    format_version,   \* self.format_version
    data_shape,       \* self.data_shape
    data_resolution,  \* self.data_resolution
    length,           \* self.length
    channel,          \* self.channel (TCFileFL3D; 0 otherwise)
    lastCall,         \* what the latest __getitem__ call did and returned
    openHandles       \* h5py.File handles opened by calls and still open

vars == <<container, imgtype, data_ndim, format_version, data_shape,
          data_resolution, length, channel, lastCall, openHandles>>

(***************************************************************************)
(* Bounds of the model.                                                    *)
(***************************************************************************)
MaxLen == 2
MaxTiles == 2
MaxOpenHandles == 1

(***************************************************************************)
(* Program constants.                                                      *)
(***************************************************************************)
Scale1e4 == 10000
Scale1e3 == 1000
PadWidth == 6

(***************************************************************************)
(* Text: sequences of character codes.                                     *)
(***************************************************************************)
Chr0 == 48       \* "0", the fill character of the 06d format
ChrMinus == 45   \* "-", the sign the d format writes

V_1_2 == <<49, 46, 50>>          \* "1.2"
V_1_3 == <<49, 46, 51>>          \* "1.3"
V_1_4 == <<49, 46, 52>>          \* "1.4"
V_1_10 == <<49, 46, 49, 48>>     \* "1.10"
Versions == {V_1_2, V_1_3, V_1_4, V_1_10}

RECURSIVE StrLess(_, _)
\* Python's str.__lt__: lexicographic on code points, a proper prefix is less.
StrLess(a, b) ==
    IF b = <<>> THEN FALSE
    ELSE IF a = <<>> THEN TRUE
    ELSE IF a[1] # b[1] THEN a[1] < b[1]
    ELSE StrLess(Tail(a), Tail(b))

RECURSIVE Digits(_)
\* decimal digits of a natural, most significant first
Digits(n) == IF n < 10 THEN <<Chr0 + n>> ELSE Digits(n \div 10) \o <<Chr0 + (n % 10)>>

RECURSIVE ZeroPad(_, _)
ZeroPad(s, w) == IF Len(s) >= w THEN s ELSE ZeroPad(<<Chr0>> \o s, w)

\* format(key, '06d'): sign first, then zeros up to a total width of 6
Format06d(key) ==
    IF key < 0 THEN <<ChrMinus>> \o ZeroPad(Digits(-key), PadWidth - 1)
    ELSE ZeroPad(Digits(key), PadWidth)

(***************************************************************************)
(* Arrays.                                                                 *)
(***************************************************************************)
Cells(shape) ==
    IF Len(shape) = 0 THEN {<<>>}
    ELSE IF Len(shape) = 1 THEN {<<i>> : i \in 0..(shape[1] - 1)}
    ELSE IF Len(shape) = 2
         THEN {<<y, x>> : y \in 0..(shape[1] - 1), x \in 0..(shape[2] - 1)}
    ELSE {<<z, y, x>> : z \in 0..(shape[1] - 1), y \in 0..(shape[2] - 1),
                        x \in 0..(shape[3] - 1)}

Array(dtype, shape, data) == [dtype |-> dtype, shape |-> shape, data |-> data]

NoArray == Array("none", <<>>, [c \in {} |-> 0])

IntDtypes == {"u1", "u2"}

\* number of values of an unsigned integer dtype
DtypeModulus(dtype) == IF dtype = "u1" THEN 2^8 ELSE 2^16

\* numpy.zeros(shape, dtype)
zeros(shape, dtype) == Array(dtype, shape, [c \in Cells(shape) |-> 0])

\* ndarray.astype(np.float32) of a numeric array
astype_float32(a) ==
    Array("f4", a.shape,
          [c \in DOMAIN a.data |->
              IF a.dtype \in IntDtypes THEN a.data[c] * Scale1e4 ELSE a.data[c]])

\* data /= d  (d = 1e4 or 1e3) on a float array
idiv(a, d) == Array(a.dtype, a.shape, [c \in DOMAIN a.data |-> a.data[c] \div d])

\* data += v  on a float array, v a float scalar
iadd_scalar(a, v) == Array(a.dtype, a.shape, [c \in DOMAIN a.data |-> a.data[c] + v])


(***************************************************************************)
(* The container: attributes and objects by path.                          *)
(*   path   : [root, ch, seg]  for /Data/<root>[/CH<ch>]/<seg>             *)
(*   object : a Dataset (an array), a Group (attributes and TILE_<n>       *)
(*            children, in sorted key order) or a named Datatype           *)
(*   tile   : a Dataset with the geometry attributes                       *)
(***************************************************************************)
Axes == <<"Z", "Y", "X">>

\* ('Z', 'Y', 'X')[3-self.data_ndim:]
AxesOf(ndim) == SubSeq(Axes, 4 - ndim, 3)

Path(root, ch, seg) == [root |-> root, ch |-> ch, seg |-> seg]

Object(kind, array, attrs, tiles) ==
    [kind |-> kind, array |-> array, attrs |-> attrs, tiles |-> tiles]

NoAttrs == [n \in {} |-> 0]

\* tcf_io[path].attrs.get(attr_name, default = [default])[0]
\* (the code's default is None where the model passes FALSE or 0: None is
\* falsy as ScalarType and differs from 1 as SamplingStep, as these do)
get_attr(obj, attr_name, default) ==
    IF attr_name \in DOMAIN obj.attrs THEN obj.attrs[attr_name] ELSE default

\* np.asarray(h5py object): a Dataset reads as its array; a Group (of at
\* least one child) is taken as the sequence of its keys, an array of text;
\* a named Datatype is wrapped as a 0-d object array.
np_asarray(obj) ==
    IF obj.kind = "Dataset" THEN obj.array
    ELSE IF obj.kind = "Group"
         THEN Array("str", <<Len(obj.tiles)>>,
                    [c \in Cells(<<Len(obj.tiles)>>) |-> c[1]])
    ELSE Array("object", <<>>, [c \in Cells(<<>>) |-> 0])

\* whether astype(np.float32) succeeds on the array
CanFloat(a) == a.dtype \notin {"str", "object"}

(***************************************************************************)
(* TCFileAbstract.get_data_location / TCFileFL3D.get_data_location         *)
(***************************************************************************)
IntKey(v) == [isint |-> TRUE, val |-> v]
NonIntKey == [isint |-> FALSE, val |-> 0]

Located(status, path) == [status |-> status, path |-> path]

NoPath == Path("", <<>>, <<>>)

\* the index left as given: no wraparound of a negative index
NormalizeKey_NoWrap(key, len) == key

\* key = (key + length) % length
NormalizeKey(key, len) == (key + len) % len

\* the upper bound tested with > instead of >= (with length 0 the modulo
\* then raises ZeroDivisionError)
get_data_location_OffByOne(key) ==
    IF ~key.isint THEN Located("TypeError", NoPath)
    ELSE IF key.val < -length \/ key.val > length THEN Located("IndexError", NoPath)
    ELSE IF length = 0 THEN Located("ZeroDivisionError", NoPath)
    ELSE Located("ok", Path(imgtype, <<>>, Format06d(NormalizeKey(key.val, length))))

get_data_location(key) ==
    IF ~key.isint THEN Located("TypeError", NoPath)
    ELSE IF key.val < -length \/ key.val >= length THEN Located("IndexError", NoPath)
    ELSE Located("ok", Path(imgtype, <<>>, Format06d(NormalizeKey(key.val, length))))

FL_get_data_location(key) ==
    IF ~key.isint THEN Located("TypeError", NoPath)
    ELSE IF key.val < -length \/ key.val >= length THEN Located("IndexError", NoPath)
    ELSE Located("ok", Path(imgtype, <<channel>>, Format06d(NormalizeKey(key.val, length))))

(***************************************************************************)
(* Tile stitching (the loop over tile_path_list).                          *)
(***************************************************************************)
TileOffset(tile, ndim) ==
    [i \in 1..ndim |-> get_attr(tile, "DataIndexOffsetPoint", NoAttrs)[AxesOf(ndim)[i]]]

TileLast(tile, ndim) ==
    [i \in 1..ndim |-> get_attr(tile, "DataIndexLastPoint", NoAttrs)[AxesOf(ndim)[i]]]

\* whether cell c lies in mapping_range = slice(start, end + 1) per axis
InMappingRange(c, offset, last) ==
    \A i \in 1..Len(offset) : offset[i] <= c[i] /\ c[i] <= last[i]

\* data[mapping_range] += tile[valid_data_range], in data's own dtype
AddTile(data, tile, ndim) ==
    LET offset == TileOffset(tile, ndim)
        last == TileLast(tile, ndim)
    IN  Array(data.dtype, data.shape,
              [c \in DOMAIN data.data |->
                  IF InMappingRange(c, offset, last)
                  THEN (data.data[c]
                        + np_asarray(tile).data[[i \in 1..ndim |-> c[i] - offset[i]]])
                       % DtypeModulus(data.dtype)
                  ELSE data.data[c]])

RECURSIVE StitchFrom_NoSkip(_, _, _, _)
\* the loop without the SamplingStep test: every tile is composited
StitchFrom_NoSkip(data, tiles, i, ndim) ==
    IF i > Len(tiles) THEN data
    ELSE StitchFrom_NoSkip(AddTile(data, tiles[i], ndim), tiles, i + 1, ndim)

RECURSIVE StitchFrom(_, _, _, _)
\* for p in tile_path_list[i:]: skip unless SamplingStep == 1, else add
StitchFrom(data, tiles, i, ndim) ==
    IF i > Len(tiles) THEN data
    ELSE IF get_attr(tiles[i], "SamplingStep", 0) # 1
         THEN StitchFrom(data, tiles, i + 1, ndim)
    ELSE StitchFrom(AddTile(data, tiles[i], ndim), tiles, i + 1, ndim)

\* the tiles the loop reads (one dataset read each)
CompositedCount(tiles) ==
    Cardinality({i \in 1..Len(tiles) : get_attr(tiles[i], "SamplingStep", 0) = 1})

\* data_type chosen from ScalarType
StitchDtype(is_uint8) == IF is_uint8 THEN "u1" ELSE "u2"

(***************************************************************************)
(* What a __getitem__ call did and returned.                               *)
(*   status   : "ok" or the exception that left the call                   *)
(*   data     : the returned array (NoArray when the call raised)          *)
(*   warned   : warnings.warn was called                                   *)
(*   route    : "direct" (the dataset read), "stitch" (the tile loop ran)  *)
(*   stitched : the composited raw array, before scaling                   *)
(*   scoped   : handles opened by a with statement (closed on exit)        *)
(*   unscoped : handles opened by a bare h5py.File(...) expression         *)
(*   reads    : datasets read                                              *)
(***************************************************************************)
Outcome(key, status, path, data, warned, route, stitched, scoped, unscoped, reads) ==
    [key |-> key, status |-> status, path |-> path, data |-> data,
     warned |-> warned, route |-> route, stitched |-> stitched,
     scoped |-> scoped, unscoped |-> unscoped, reads |-> reads]

NoCall == Outcome(NonIntKey, "none", NoPath, NoArray, FALSE, "none", NoArray, 0, 0, 0)

Present(path) == path \in DOMAIN container.objects

\* the 8-bit branch without the RIMin baseline (as the fluorescence class has it)
RIFallbackScale_NoRIMin(stitched, is_uint8, min_RI) ==
    IF is_uint8
    THEN idiv(astype_float32(stitched), Scale1e3)
    ELSE idiv(astype_float32(stitched), Scale1e4)

\* RI = data/1e3 + min_RI (ScalarType True), RI = data/1e4 (ScalarType False)
RIFallbackScale(stitched, is_uint8, min_RI) ==
    IF is_uint8
    THEN iadd_scalar(idiv(astype_float32(stitched), Scale1e3), min_RI)
    ELSE idiv(astype_float32(stitched), Scale1e4)

\* the except branch of TCFileRIAbstract.__getitem__
RIFallback(key, path) ==
    IF ~Present(path)
    THEN Outcome(key, "KeyError", path, NoArray, TRUE, "none", NoArray, 1, 1, 0)
    ELSE LET obj == container.objects[path]
             is_uint8 == get_attr(obj, "ScalarType", FALSE)
         IN  IF obj.kind # "Group"
             THEN \* tcf_io[data_path].keys() on an object that has none
                  Outcome(key, "AttributeError", path, NoArray, TRUE, "none",
                          NoArray, 1, 1, 0)
             ELSE LET raw == StitchFrom(zeros(data_shape, StitchDtype(is_uint8)),
                                        obj.tiles, 1, data_ndim)
                      n == CompositedCount(obj.tiles)
                  IN  Outcome(key, "ok", path,
                              RIFallbackScale(raw, is_uint8, get_attr(obj, "RIMin", 0)),
                              TRUE, "stitch", raw, 1, 1 + n, n)

\* TCFileRIAbstract.__getitem__(key), array_type = 'numpy'
RIOutcome(key) ==
    LET loc == get_data_location(key)
        path == loc.path
    IN  IF loc.status # "ok"
        THEN Outcome(key, loc.status, path, NoArray, FALSE, "none", NoArray, 0, 0, 0)
        ELSE IF StrLess(format_version, V_1_3)
        THEN IF ~Present(path)
             THEN Outcome(key, "KeyError", path, NoArray, FALSE, "none", NoArray, 0, 1, 0)
             ELSE Outcome(key, "ok", path, np_asarray(container.objects[path]), FALSE,
                          "direct", NoArray, 0, 1,
                          IF container.objects[path].kind = "Dataset" THEN 1 ELSE 0)
        ELSE IF Present(path) /\ CanFloat(np_asarray(container.objects[path]))
             THEN Outcome(key, "ok", path,
                          idiv(astype_float32(np_asarray(container.objects[path])), Scale1e4),
                          FALSE, "direct", NoArray, 0, 1,
                          IF container.objects[path].kind = "Dataset" THEN 1 ELSE 0)
             ELSE RIFallback(key, path)

\* data /= 1e3 (ScalarType True, no RIMin), data /= 1e4 (ScalarType False)
FLTileScale(stitched, is_uint8) ==
    IF is_uint8
    THEN idiv(astype_float32(stitched), Scale1e3)
    ELSE idiv(astype_float32(stitched), Scale1e4)

\* TCFileFL3D.__getitem__(key), array_type = 'numpy'
FLOutcome(key) ==
    LET loc == FL_get_data_location(key)
        path == loc.path
    IN  IF loc.status # "ok"
        THEN Outcome(key, loc.status, path, NoArray, FALSE, "none", NoArray, 0, 0, 0)
        ELSE IF ~Present(path)
        THEN Outcome(key, "KeyError", path, NoArray, FALSE, "none", NoArray, 1, 0, 0)
        ELSE LET obj == container.objects[path]
                 is_uint8 == get_attr(obj, "ScalarType", FALSE)
             IN  IF obj.kind = "Dataset"
                 THEN Outcome(key, "ok", path,
                              idiv(astype_float32(np_asarray(obj)), Scale1e4),
                              FALSE, "direct", NoArray, 1, 0, 1)
                 ELSE IF obj.kind = "Group"
                 THEN LET raw == StitchFrom(zeros(data_shape, StitchDtype(is_uint8)),
                                            obj.tiles, 1, data_ndim)
                      IN  Outcome(key, "ok", path, FLTileScale(raw, is_uint8), FALSE,
                                  "stitch", raw, 1, 0, CompositedCount(obj.tiles))
                 ELSE Outcome(key, "TypeError", path, NoArray, FALSE, "none",
                              NoArray, 1, 0, 0)

\* TCFileBF.__getitem__(key): f[data_path][()] then Image.fromarray(.., 'RGB')
BFOutcome(key) ==
    LET loc == get_data_location(key)
        path == loc.path
    IN  IF loc.status # "ok"
        THEN Outcome(key, loc.status, path, NoArray, FALSE, "none", NoArray, 0, 0, 0)
        ELSE IF ~Present(path)
        THEN Outcome(key, "KeyError", path, NoArray, FALSE, "none", NoArray, 1, 0, 0)
        ELSE IF container.objects[path].kind # "Dataset"
        THEN Outcome(key, "TypeError", path, NoArray, FALSE, "none", NoArray, 1, 0, 0)
        ELSE Outcome(key, "ok", path,
                     Array("RGB", container.objects[path].array.shape,
                           container.objects[path].array.data),
                     FALSE, "direct", NoArray, 1, 0, 1)

(***************************************************************************)
(* The calls.  A handle opened by a with statement is closed when the      *)
(* block is left, on every exit.  A handle opened by a bare                *)
(* h5py.File(self.tcfname)[...] expression is never closed by the code:    *)
(* whether it is still open when the call returns is left to the           *)
(* interpreter's garbage collection, so either may happen.                 *)
(***************************************************************************)
\* the indices tried: all of -(length+1)..length for a short sequence, the
\* ends of that range and of the sequence for a long one
KeyValues ==
    IF length <= MaxLen THEN (-(length + 1))..length
    ELSE {-(length + 1), -length, -1, 0, length - 1, length}

Keys == {IntKey(v) : v \in KeyValues} \cup {NonIntKey}

\* a call that consumes the accessor's shape list while it decodes
Return_PopsShape(out, leaked) ==
    /\ openHandles + leaked <= MaxOpenHandles
    /\ lastCall' = out
    /\ openHandles' = openHandles + leaked
    /\ data_shape' = IF out.status = "ok" THEN Tail(data_shape) ELSE data_shape
    /\ UNCHANGED <<container, imgtype, data_ndim, format_version,
                   data_resolution, length, channel>>

Return(out, leaked) ==
    /\ openHandles + leaked <= MaxOpenHandles
    /\ lastCall' = out
    /\ openHandles' = openHandles + leaked
    /\ UNCHANGED <<container, imgtype, data_ndim, format_version, data_shape,
                   data_resolution, length, channel>>

RIGetItem ==
    /\ imgtype \in {"3D", "2DMIP"}
    /\ \E key \in Keys :
          LET out == RIOutcome(key)
          IN  \E leaked \in 0..out.unscoped : Return(out, leaked)

FLGetItem ==
    /\ imgtype = "3DFL"
    /\ \E key \in Keys :
          LET out == FLOutcome(key)
          IN  \E leaked \in 0..out.unscoped : Return(out, leaked)

BFGetItem ==
    /\ imgtype = "BF"
    /\ \E key \in Keys :
          LET out == BFOutcome(key)
          IN  \E leaked \in 0..out.unscoped : Return(out, leaked)

(***************************************************************************)
(* The containers the accessor is opened on.                               *)
(***************************************************************************)
ImgTypes == {"3D", "2DMIP", "BF", "3DFL"}

\* data_ndim of the class of each imgtype
NdimOf(kind) == IF kind \in {"3D", "3DFL"} THEN 3 ELSE 2

\* the frame extent written in the Size<axis> attributes
FrameShape(ndim) == IF ndim = 3 THEN <<2, 1, 2>> ELSE <<2, 2>>

AxisNames(ndim) == {AxesOf(ndim)[i] : i \in 1..ndim}

\* per-axis attribute values <name>Z, <name>Y, <name>X from a tuple
AxisAttr(ndim, v) ==
    [a \in AxisNames(ndim) |-> v[CHOOSE i \in 1..ndim : AxesOf(ndim)[i] = a]]

RECURSIVE LinFrom(_, _, _, _)
\* row-major position of cell c in an array of the given shape
LinFrom(c, shape, i, acc) ==
    IF i > Len(shape) THEN acc ELSE LinFrom(c, shape, i + 1, acc * shape[i] + c[i])

\* sample values base, base+1, ... in row-major order, times mult
Ramp(shape, base, mult) == [c \in Cells(shape) |-> (base + LinFrom(c, shape, 1, 0)) * mult]

\* a small and a large sample of each dtype
SampleBases(dtype) == IF dtype = "u1" THEN {1, 200} ELSE {1, 40000}

DatasetObject(dtype, shape, base) ==
    Object("Dataset",
           Array(dtype, shape, Ramp(shape, base, IF dtype = "f4" THEN Scale1e4 ELSE 1)),
           NoAttrs, <<>>)

\* tile regions [offset, last] of a frame: its first slab along the first
\* axis, the whole frame, and its last cell
Regions(ndim) ==
    LET shape == FrameShape(ndim)
        origin == [i \in 1..ndim |-> 0]
        corner == [i \in 1..ndim |-> shape[i] - 1]
    IN  { [offset |-> origin, last |-> [corner EXCEPT ![1] = 0]],
          [offset |-> origin, last |-> corner],
          [offset |-> corner, last |-> corner] }

TileObject(ndim, dtype, region, step, base) ==
    LET extent == [i \in 1..ndim |-> region.last[i] - region.offset[i] + 1]
    IN  Object("Dataset", Array(dtype, extent, Ramp(extent, base, 1)),
               [SamplingStep |-> step,
                DataIndexOffsetPoint |-> AxisAttr(ndim, region.offset),
                DataIndexLastPoint |-> AxisAttr(ndim, region.last)],
               <<>>)

\* tiles of a frame: every region, SamplingStep 1 with either sample base,
\* SamplingStep 2 with the small one
Tiles(ndim, dtype) ==
    { TileObject(ndim, dtype, r, sb[1], sb[2]) :
        r \in Regions(ndim),
        sb \in ({1} \X SampleBases(dtype)) \cup {<<2, 1>>} }

TileLists(ndim, dtype, lo, hi) ==
    UNION { [1..n -> Tiles(ndim, dtype)] : n \in lo..hi }

GroupsOfDtype(ndim, u8, lo, hi) ==
    { Object("Group", NoArray, [ScalarType |-> u8, RIMin |-> 13300], tl) :
        tl \in TileLists(ndim, StitchDtype(u8), lo, hi) }

\* groups of lo..hi tiles, ScalarType true (8-bit) or false (16-bit)
GroupObjects(ndim, lo, hi) ==
    GroupsOfDtype(ndim, TRUE, lo, hi) \cup GroupsOfDtype(ndim, FALSE, lo, hi)

DatatypeObject == Object("Datatype", NoArray, NoAttrs, <<>>)

Container(kind, version, count, objects) ==
    [root |-> kind, version |-> version,
     attrs |-> [Size |-> AxisAttr(NdimOf(kind), FrameShape(NdimOf(kind))),
                Resolution |-> AxisAttr(NdimOf(kind), [i \in 1..NdimOf(kind) |-> 1]),
                DataCount |-> count],
     objects |-> objects]

\* the channel segment of a path: CH0 and CH1 for fluorescence, none otherwise
ChannelsOf(kind) == IF kind = "3DFL" THEN {<<0>>, <<1>>} ELSE {<<>>}

\* the first sample of frame i of channel ch of an index container
FrameBase(ch, i) == 10 * i + (IF ch = <<1>> THEN 100 ELSE 0) + 1

\* every frame 0..count-1 (of every channel) a dataset, told apart by its samples
IndexObjects(kind, count) ==
    [p \in { Path(kind, ch, Format06d(i)) :
                ch \in ChannelsOf(kind), i \in 0..(count - 1) } |->
        DatasetObject(IF kind = "BF" THEN "u1" ELSE "u2", FrameShape(NdimOf(kind)),
                      FrameBase(p.ch, CHOOSE i \in 0..(count - 1) : Format06d(i) = p.seg))]

IndexContainers ==
    { Container(kc[1], version, kc[2], IndexObjects(kc[1], kc[2])) :
        kc \in ImgTypes \X (0..MaxLen), version \in Versions }

\* the path of frame 0 (of channel 0)
FirstPath(kind) == Path(kind, IF kind = "3DFL" THEN <<0>> ELSE <<>>, Format06d(0))

\* at the path of the one announced frame: nothing, a named datatype, a
\* dataset of any dtype, or a group of one tile
SingleObjects(kind) ==
    {[p \in {} |-> DatatypeObject]}
    \cup { [p \in {FirstPath(kind)} |-> o] :
             o \in {DatatypeObject}
                   \cup { DatasetObject(dt, FrameShape(NdimOf(kind)), b) :
                            dt \in {"u1", "u2", "f4"}, b \in {1, 200} }
                   \cup GroupObjects(NdimOf(kind), 1, 1) }

ObjectContainers ==
    UNION { { Container(kind, version, 1, objs) :
                version \in Versions, objs \in SingleObjects(kind) } :
            kind \in ImgTypes }

\* one frame, stored as a group of two or more tiles
StitchContainers ==
    UNION { { Container(kind, V_1_4, 1, [p \in {FirstPath(kind)} |-> o]) :
                o \in GroupObjects(NdimOf(kind), 2, MaxTiles) } :
            kind \in {"3D", "2DMIP", "3DFL"} }

\* a frame count whose last index no longer fits six digits
LongCount == 10^PadWidth + 1

\* a long sequence of which only the last frame is stored
LongContainers ==
    { Container(kind, V_1_4, LongCount,
                [p \in {Path(kind, IF kind = "3DFL" THEN <<0>> ELSE <<>>,
                              Format06d(LongCount - 1))} |->
                    DatasetObject(IF kind = "BF" THEN "u1" ELSE "u2",
                                  FrameShape(NdimOf(kind)), 1)]) :
        kind \in ImgTypes }

Containers ==
    IndexContainers \cup ObjectContainers \cup StitchContainers \cup LongContainers

(***************************************************************************)
(* TCFileAbstract.__init__ / TCFileFL3D.__init__                           *)
(***************************************************************************)
Init ==
    /\ container \in Containers
    /\ imgtype = container.root
    /\ data_ndim = NdimOf(imgtype)
    /\ format_version = container.version
    /\ data_shape = [i \in 1..data_ndim |->
                        get_attr(container, "Size", NoAttrs)[AxesOf(data_ndim)[i]]]
    /\ data_resolution = [i \in 1..data_ndim |->
                        get_attr(container, "Resolution", NoAttrs)[AxesOf(data_ndim)[i]]]
    /\ length = get_attr(container, "DataCount", 0)
    /\ channel \in IF imgtype = "3DFL" THEN 0..2 ELSE {0}
    /\ lastCall = NoCall
    /\ openHandles = 0

Next == RIGetItem \/ FLGetItem \/ BFGetItem

Spec == Init /\ [][Next]_vars

(***************************************************************************)
(* Vocabulary of the properties.                                           *)
(***************************************************************************)
Called == lastCall.status # "none"

ArrayKinds == {"3D", "2DMIP", "3DFL"}
RIKinds == {"3D", "2DMIP"}

Modern == ~StrLess(format_version, V_1_3)

\* the outcome of __getitem__(key) of the accessor's class in the current state
OutcomeOf(key) ==
    IF imgtype \in RIKinds THEN RIOutcome(key)
    ELSE IF imgtype = "3DFL" THEN FLOutcome(key)
    ELSE BFOutcome(key)

KeyInRange == lastCall.key.isint /\ -length <= lastCall.key.val /\ lastCall.key.val < length

\* the kind of object at the located path: "Dataset", "Group", "Datatype", "Missing"
KindAt(path) == IF Present(path) THEN container.objects[path].kind ELSE "Missing"

\* the object the latest call located (a group's tiles, its attributes)
LocatedObject == container.objects[lastCall.path]

IsDigit(ch) == Chr0 <= ch /\ ch <= Chr0 + 9

RECURSIVE DecimalValue(_)
\* the number a sequence of digit characters writes
DecimalValue(s) ==
    IF s = <<>> THEN 0
    ELSE DecimalValue(SubSeq(s, 1, Len(s) - 1)) * 10 + (s[Len(s)] - Chr0)

\* the value of cell c in fixed point, whatever the dtype
Phys(a, c) == IF a.dtype \in IntDtypes THEN a.data[c] * Scale1e4 ELSE a.data[c]

\* the tiles that cover cell c with SamplingStep 1
Covering(tiles, c, ndim) ==
    { i \in 1..Len(tiles) :
        /\ tiles[i].attrs.SamplingStep = 1
        /\ \A a \in 1..ndim :
              /\ tiles[i].attrs.DataIndexOffsetPoint[AxesOf(ndim)[a]] <= c[a]
              /\ c[a] <= tiles[i].attrs.DataIndexLastPoint[AxesOf(ndim)[a]] }

\* the sample tile i holds for frame cell c
TileSampleAt(tiles, i, c, ndim) ==
    tiles[i].array.data[[a \in 1..ndim |->
        c[a] - tiles[i].attrs.DataIndexOffsetPoint[AxesOf(ndim)[a]]]]

RECURSIVE SumOver(_, _, _, _)
\* the arithmetic sum of the samples the tiles in S hold for cell c
SumOver(S, tiles, c, ndim) ==
    IF S = {} THEN 0
    ELSE LET i == CHOOSE j \in S : TRUE
         IN  TileSampleAt(tiles, i, c, ndim) + SumOver(S \ {i}, tiles, c, ndim)

\* the tiles of the located group whose SamplingStep is 1, in order
RECURSIVE Supported(_)
Supported(tiles) ==
    IF tiles = <<>> THEN <<>>
    ELSE IF Head(tiles).attrs.SamplingStep = 1
         THEN <<Head(tiles)>> \o Supported(Tail(tiles))
    ELSE Supported(Tail(tiles))

(***************************************************************************)
(* C1.  Every successful decode of an array kind returns a float32 array   *)
(* whose shape is the descriptor's shape.  (The claim as stated; it fails: *)
(* the legacy branch returns the stored array uncast.)                     *)
(***************************************************************************)
C1_FrameIsFloat32OfShape ==
    (imgtype \in ArrayKinds /\ lastCall.status = "ok")
        => (lastCall.data.dtype = "f4" /\ lastCall.data.shape = data_shape)

(***************************************************************************)
(* C2.  The decode path follows the kind of object at the located path: a  *)
(* dataset is decoded directly, a group is tile-stitched, anything else    *)
(* makes the call fail, without stitching and without the warning.  (The   *)
(* claim as stated, whichever exception is taken for its                   *)
(* UnsupportedContainerObject; it fails.)                                  *)
(***************************************************************************)
C2_DispatchByObjectKind ==
    (imgtype \in ArrayKinds /\ Called /\ KeyInRange)
        => CASE KindAt(lastCall.path) = "Dataset" ->
                    lastCall.status = "ok" /\ lastCall.route = "direct"
             [] KindAt(lastCall.path) = "Group" ->
                    lastCall.status = "ok" /\ lastCall.route = "stitch"
             [] OTHER ->
                    /\ lastCall.status # "ok"
                    /\ lastCall.route # "stitch"
                    /\ ~lastCall.warned

(***************************************************************************)
(* C3.  On a container of version >= "1.3", a call that takes the          *)
(* tile-stitch path warns and still returns the frame, and a call that     *)
(* decodes a direct dataset does not warn.  (The claim as stated; it       *)
(* fails for fluorescence.)                                                *)
(***************************************************************************)
C3_WarningIffTileStitch ==
    (imgtype \in ArrayKinds /\ Called /\ KeyInRange /\ Modern)
        => /\ KindAt(lastCall.path) = "Group"
                => (lastCall.warned /\ lastCall.status = "ok")
           /\ KindAt(lastCall.path) = "Dataset" => ~lastCall.warned

(***************************************************************************)
(* C4.  For -length <= index < length the located path has the index       *)
(* segment (index + length) mod length, after CH<channel> for              *)
(* fluorescence, and a negative index k decodes to what k + length         *)
(* decodes to.  The segment is written in decimal, zero-padded to six      *)
(* digits: exactly six digits below 10^6, and as many as the number needs  *)
(* from there on.                                                          *)
(***************************************************************************)
\* what the located path and the outcome are, whatever the segment's width
WrapsToSameFrame ==
    /\ lastCall.status # "IndexError"
    /\ lastCall.path.root = imgtype
    /\ lastCall.path.ch = (IF imgtype = "3DFL" THEN <<channel>> ELSE <<>>)
    /\ \A i \in 1..Len(lastCall.path.seg) : IsDigit(lastCall.path.seg[i])
    /\ DecimalValue(lastCall.path.seg)
         = (IF lastCall.key.val < 0 THEN lastCall.key.val + length
            ELSE lastCall.key.val)
    /\ lastCall.key.val < 0
         => LET same == OutcomeOf(IntKey(lastCall.key.val + length))
            IN  /\ lastCall.path = same.path
                /\ lastCall.status = same.status
                /\ lastCall.data = same.data

C4_NegativeIndexWraps ==
    (Called /\ KeyInRange)
        => /\ WrapsToSameFrame
           /\ Len(lastCall.path.seg) >= 6
           /\ DecimalValue(lastCall.path.seg) < 10^6 => Len(lastCall.path.seg) = 6
           /\ Len(lastCall.path.seg) > 6 => lastCall.path.seg[1] # Chr0

\* C4 as stated: the segment always has six digits.  It fails for an index
\* of 10^6 or more, which the 06d format writes with seven digits.
C4_SixDigitSegment ==
    (Called /\ KeyInRange)
        => /\ WrapsToSameFrame
           /\ Len(lastCall.path.seg) = 6

C4_Witness ==
    /\ Called /\ length >= 2
    /\ lastCall.key.isint /\ lastCall.key.val = -1
    /\ lastCall.status = "ok"

(***************************************************************************)
(* C5.  An integer index < -length or >= length fails with IndexError, a   *)
(* non-integer index with TypeError; either way no handle is opened, no    *)
(* dataset is read and nothing is returned.                                *)
(***************************************************************************)
C5_BadIndexFailsBeforeReading ==
    (Called /\ ~KeyInRange)
        => /\ lastCall.status = (IF lastCall.key.isint THEN "IndexError" ELSE "TypeError")
           /\ lastCall.scoped + lastCall.unscoped = 0
           /\ lastCall.reads = 0
           /\ lastCall.data = NoArray
           /\ ~lastCall.warned

C5_Witness ==
    /\ Called /\ length >= 1
    /\ lastCall.key.isint /\ lastCall.key.val = length
    /\ lastCall.status = "IndexError"

(***************************************************************************)
(* C6.  Volumetric and projection frames: below version "1.3" a decoded    *)
(* dataset is the stored array unchanged; from "1.3" a direct dataset      *)
(* gives v / 1e4 whatever ScalarType is; the tile-stitched fallback gives  *)
(* v / 1e3 + RIMin when ScalarType is true and v / 1e4 when it is false.   *)
(* (Stated without division: the result times the divisor is the sample.) *)
(***************************************************************************)
C6_ScaleByVersionAndScalarType ==
    (imgtype \in RIKinds /\ lastCall.status = "ok")
        => /\ (~Modern /\ KindAt(lastCall.path) = "Dataset")
                => /\ lastCall.data = LocatedObject.array
                   /\ \A c \in DOMAIN lastCall.data.data :
                         Phys(lastCall.data, c) = Phys(LocatedObject.array, c)
           /\ (Modern /\ KindAt(lastCall.path) = "Dataset")
                => /\ lastCall.route = "direct"
                   /\ DOMAIN lastCall.data.data = DOMAIN LocatedObject.array.data
                   /\ \A c \in DOMAIN lastCall.data.data :
                         lastCall.data.data[c] * 10000 = Phys(LocatedObject.array, c)
           /\ (Modern /\ lastCall.route = "stitch")
                => /\ DOMAIN lastCall.data.data = DOMAIN lastCall.stitched.data
                   /\ \A c \in DOMAIN lastCall.data.data :
                         IF LocatedObject.attrs.ScalarType
                         THEN lastCall.data.data[c] * 1000
                                = Phys(lastCall.stitched, c)
                                  + 1000 * LocatedObject.attrs.RIMin
                         ELSE lastCall.data.data[c] * 10000
                                = Phys(lastCall.stitched, c)

C6_Witness ==
    /\ imgtype \in RIKinds /\ lastCall.status = "ok" /\ lastCall.route = "stitch"
    /\ LocatedObject.attrs.ScalarType
    /\ \E c \in DOMAIN lastCall.stitched.data : lastCall.stitched.data[c] > 0

(***************************************************************************)
(* C7.  After stitching, every cell of the raw array is the arithmetic sum *)
(* of the samples the SamplingStep-1 tiles covering it hold for it (zero   *)
(* where none covers it), in the sample dtype chosen from ScalarType.      *)
(* (The claim as stated; it fails: the sum is taken in the sample dtype    *)
(* and wraps.)                                                             *)
(***************************************************************************)
C7_StitchIsArithmeticSum ==
    (lastCall.route = "stitch")
        => /\ lastCall.stitched.dtype = StitchDtype(LocatedObject.attrs.ScalarType)
           /\ \A c \in DOMAIN lastCall.stitched.data :
                 lastCall.stitched.data[c]
                    = SumOver(Covering(LocatedObject.tiles, c, data_ndim),
                              LocatedObject.tiles, c, data_ndim)

(***************************************************************************)
(* C8.  A tile whose SamplingStep is not 1 is left out without an error:   *)
(* the stitched raw array is the one the remaining tiles alone stitch to,  *)
(* a cell no SamplingStep-1 tile covers is zero, and when every tile is    *)
(* skipped the array is all zero; the decode returns normally.             *)
(***************************************************************************)
C8_UnsupportedTilesSkipped ==
    (lastCall.route = "stitch")
        => /\ lastCall.status = "ok"
           /\ lastCall.stitched
                = StitchFrom(zeros(data_shape, StitchDtype(LocatedObject.attrs.ScalarType)),
                             Supported(LocatedObject.tiles), 1, data_ndim)
           /\ DOMAIN lastCall.stitched.data = Cells(data_shape)
           /\ \A c \in Cells(data_shape) :
                 (Covering(LocatedObject.tiles, c, data_ndim) = {})
                    => lastCall.stitched.data[c] = 0
           /\ lastCall.reads = Len(Supported(LocatedObject.tiles))

C8_Witness ==
    /\ lastCall.route = "stitch"
    /\ Len(LocatedObject.tiles) = 2
    /\ Len(Supported(LocatedObject.tiles)) = 1
    /\ \E c \in Cells(data_shape) :
          /\ Covering(LocatedObject.tiles, c, data_ndim) = {}
          /\ \E d \in Cells(data_shape) : lastCall.stitched.data[d] > 0

(***************************************************************************)
(* C9.  Decoding keeps no state: after any calls the accessor's            *)
(* format_version, data_shape, data_resolution and length are the ones     *)
(* read when it was constructed, and the call just made would have the     *)
(* same outcome if made again, so what a call returns does not depend on   *)
(* the calls before it.                                                    *)
(***************************************************************************)
C9_DecodeKeepsNoState ==
    /\ format_version = container.version
    /\ data_shape = [i \in 1..data_ndim |-> container.attrs.Size[AxesOf(data_ndim)[i]]]
    /\ data_resolution
          = [i \in 1..data_ndim |-> container.attrs.Resolution[AxesOf(data_ndim)[i]]]
    /\ length = container.attrs.DataCount
    /\ Called => LET again == OutcomeOf(lastCall.key)
                 IN  /\ lastCall.status = again.status
                     /\ lastCall.data = again.data

\* a failed call made after an earlier call (the one that left a handle open)
C9_Witness ==
    /\ lastCall.status = "IndexError"
    /\ openHandles > 0

(***************************************************************************)
(* C10.  Every handle a call opens has been released when it returns: no   *)
(* handle is left open after any sequence of calls.  (The claim as stated; *)
(* it fails: the volumetric and projection decoders open the file outside  *)
(* any scope and never close it.)                                          *)
(***************************************************************************)
C10_NoHandleLeftOpen == openHandles = 0

=============================================================================
